---- MODULE Spec2Model ----
(***************************************************************************)
(* Accessibility analyzer: the React client (AccessibilityAnalyzer, in     *)
(* src/unnamed/part_000) and the express server (GET /scan, POST /analyze, *)
(* in src/tailwind.config.js).                                             *)
(*                                                                         *)
(* Three specifications share this module:                                 *)
(*   SpecHeuristic  the scoring heuristic of the two variants, applied to  *)
(*                  every violation list up to MaxViolations entries and   *)
(*                  to the lists of one impact up to MaxRepeat entries;    *)
(*   SpecServer     one request after another through the two handlers;    *)
(*   Spec           the client's state (url, loading, report, error) under *)
(*                  user events and handleAnalyze runs whose awaits        *)
(*                  interleave.                                            *)
(***************************************************************************)
EXTENDS Integers, Sequences, FiniteSets, TLC

VARIABLES
    \* SpecHeuristic
    violations,   \* the violation list under analysis
    path,         \* "input", then the variant applied: "server" or "client"
    analysis,     \* the report that variant produced
    \* SpecServer
    request,      \* the request being handled
    spc,          \* where its handler stands
    responses,    \* the responses written to res, in order
    effects,      \* what the handler has started: "fetch", "axe", "score"
    thrown,       \* the message of the error its catch block caught, or ""
    extracted,    \* /analyze: what JSON.parse returned for the slice
    \* Spec: the component's state and its handleAnalyze runs
    url,          \* useState('')
    loading,      \* useState(false)
    report,       \* useState(null)
    error,        \* useState('')
    runs,         \* each handleAnalyze run: where it stands and its locals
    sent          \* the requests the runs have sent, in order

hvars == <<violations, path, analysis>>
svars == <<request, spc, responses, effects, thrown, extracted>>
cvars == <<url, loading, report, error, runs, sent>>
vars == <<hvars, svars, cvars>>

------------------------------------------------------------------------------
(* Bounds *)

MaxViolations == 6      \* longest violation list of mixed impacts
MaxRepeat == 21         \* longest violation list of one repeated impact
MaxNodes == 1           \* most affected elements one violation carries

------------------------------------------------------------------------------
(* Data *)

\* impact of a violation: the four levels of the rule engine, an
\* unrecognised string, and "none" for an absent (undefined/null) impact.
Impacts == {"critical", "serious", "moderate", "minor", "unknown", "none"}

\* violation.nodes when the entry has no nodes list
NoNodes == -1

\* A violation record as far as the two variants read it: v.impact and
\* v.nodes.length (NoNodes: v.nodes is undefined).
Violation(impact, nodes) == [impact |-> impact, nodes |-> nodes]

\* The sequences over S of length at most n
RECURSIVE SeqsUpTo(_, _)
SeqsUpTo(S, n) ==
    IF n = 0 THEN {<<>>}
    ELSE LET shorter == SeqsUpTo(S, n - 1)
         IN shorter \cup {Append(s, x) : s \in {t \in shorter : Len(t) = n - 1}, x \in S}

Min(a, b) == IF a < b THEN a ELSE b
Max(a, b) == IF a > b THEN a ELSE b

\* Array.prototype.slice(0, n)
Slice(s, n) == SubSeq(s, 1, Min(n, Len(s)))

\* Array.prototype.filter(pred).length
RECURSIVE CountIf(_, _)
CountIf(s, impact) ==
    IF s = <<>> THEN 0
    ELSE (IF Head(s).impact = impact THEN 1 ELSE 0) + CountIf(Tail(s), impact)

\* An analysis result; threw marks a call that ended in an exception.
NoAnalysis ==
    [threw |-> FALSE, recommendations |-> <<>>, severity |-> "", score |-> -1]
Thrown ==
    [threw |-> TRUE, recommendations |-> <<>>, severity |-> "", score |-> -1]

------------------------------------------------------------------------------
(* Server variant: app.post('/analyze'), after the violations are parsed *)

\* violations.reduce(...): one count per key, the key being v.impact || 'minor'
RECURSIVE impactCounts(_)
impactCounts(vs) ==
    IF vs = <<>> THEN [i \in Impacts |-> 0]
    ELSE LET counts == impactCounts(SubSeq(vs, 1, Len(vs) - 1))
             v == vs[Len(vs)]
             impact == IF v.impact = "none" THEN "minor" ELSE v.impact
         IN [counts EXCEPT ![impact] = counts[impact] + 1]

PenaltyCritical == 20
PenaltySerious == 15
PenaltyModerate == 10
PenaltyMinor == 5
ModerateThreshold == 2

\* Mutant: the moderate rule fires at two moderate violations already.
ServerSeverityAtThreshold(counts) ==
    IF counts["critical"] > 0 THEN "high"
    ELSE IF counts["serious"] > 0 THEN "medium"
    ELSE IF counts["moderate"] >= ModerateThreshold THEN "medium"
    ELSE "low"

ServerSeverity(counts) ==
    IF counts["critical"] > 0 THEN "high"
    ELSE IF counts["serious"] > 0 THEN "medium"
    ELSE IF counts["moderate"] > ModerateThreshold THEN "medium"
    ELSE "low"

\* Mutant: the score without Math.max(0, Math.min(100, ...)).
ServerScoreUnclamped(counts) ==
    100
    - counts["critical"] * PenaltyCritical
    - counts["serious"] * PenaltySerious
    - counts["moderate"] * PenaltyModerate
    - counts["minor"] * PenaltyMinor

ServerScore(counts) ==
    Max(0, Min(100,
        100
        - counts["critical"] * PenaltyCritical
        - counts["serious"] * PenaltySerious
        - counts["moderate"] * PenaltyModerate
        - counts["minor"] * PenaltyMinor))

\* `${impact} ${v.description || v.help}${elements}. ${first failureSummary}`:
\* the string is kept as its varying parts, the impact tag and the element count.
toUpperCase(impact) ==
    CASE impact = "critical" -> "CRITICAL"
      [] impact = "serious" -> "SERIOUS"
      [] impact = "moderate" -> "MODERATE"
      [] impact = "minor" -> "MINOR"
      [] OTHER -> "UNKNOWN"

ServerRecommendation(v) ==
    [tag |-> IF v.impact = "none" THEN "" ELSE "[" \o toUpperCase(v.impact) \o "]",
     elements |-> IF v.nodes > 0 THEN v.nodes ELSE 0]

MaxRecommendations == 5

RECURSIVE MapServer(_)
MapServer(vs) ==
    IF vs = <<>> THEN <<>>
    ELSE <<ServerRecommendation(Head(vs))>> \o MapServer(Tail(vs))

\* Mutant: the mapped list without .slice(0, 5).
ServerRecommendationsUnsliced(vs) == MapServer(vs)

ServerRecommendations(vs) == Slice(MapServer(vs), MaxRecommendations)

\* Math.round of the score, which is an integer already
Round(x) == x

ServerReport(vs) ==
    LET counts == impactCounts(vs)
    IN [threw |-> FALSE,
        recommendations |-> ServerRecommendations(vs),
        severity |-> ServerSeverity(counts),
        score |-> Round(ServerScore(counts))]

------------------------------------------------------------------------------
(* Client variant: getSimulatedAnalysis *)

ClientPenaltyCritical == 15
ClientPenaltySerious == 10
ClientPenaltyOther == 5

ClientSeverity(criticalViolations, seriousViolations) ==
    IF criticalViolations > 0 THEN "high"
    ELSE IF seriousViolations > 0 THEN "medium"
    ELSE "low"

ClientScore(totalViolations, criticalViolations, seriousViolations) ==
    Max(0,
        100
        - criticalViolations * ClientPenaltyCritical
        - seriousViolations * ClientPenaltySerious
        - (totalViolations - criticalViolations - seriousViolations)
              * ClientPenaltyOther)

\* `Fix ${violation.impact} issue: ${violation.help} affecting ${n} elements`
ClientRecommendation(v) ==
    [tag |-> IF v.impact = "none" THEN "undefined" ELSE v.impact,
     elements |-> v.nodes]

NoViolationsText ==
    [tag |-> "No specific violations found to address", elements |-> 0]

RECURSIVE MapClient(_)
MapClient(vs) ==
    IF vs = <<>> THEN <<>>
    ELSE <<ClientRecommendation(Head(vs))>> \o MapClient(Tail(vs))

ClientRecommendations(vs) ==
    LET recommendations == Slice(MapClient(vs), MaxRecommendations)
    IN IF Len(recommendations) > 0 THEN recommendations
       ELSE <<NoViolationsText>>

\* violation.nodes.length throws a TypeError when an entry has no nodes list
getSimulatedAnalysis(vs) ==
    IF \E i \in 1..Len(vs) : vs[i].nodes = NoNodes THEN Thrown
    ELSE LET totalViolations == Len(vs)
             criticalViolations == CountIf(vs, "critical")
             seriousViolations == CountIf(vs, "serious")
         IN [threw |-> FALSE,
             recommendations |-> ClientRecommendations(vs),
             severity |-> ClientSeverity(criticalViolations, seriousViolations),
             score |-> Round(ClientScore(totalViolations, criticalViolations,
                                         seriousViolations))]

\* The heuristic's variables while another specification runs
InitHeuristicVars ==
    /\ violations = <<>>
    /\ path = "idle"
    /\ analysis = NoAnalysis

------------------------------------------------------------------------------
(* JSON text.  A text is a sequence of tokens: the punctuation of JSON, the  *)
(* literals (quoted strings, numbers), and the words of the surrounding      *)
(* prose.  String.indexOf and String.slice are modelled on the tokens, with  *)
(* the 0-based positions and the negative-index rules of JavaScript.         *)

Quote(str) == "\"" \o str \o "\""

\* A JSON value: t is "atom" (v the literal), "arr" (items), "obj" (items the
\* members) or "member" (v the key, items the one value).
Atom(lit) == [t |-> "atom", v |-> lit, items |-> <<>>]
Arr(items) == [t |-> "arr", v |-> "", items |-> items]
Obj(members) == [t |-> "obj", v |-> "", items |-> members]
Member(key, val) == [t |-> "member", v |-> key, items |-> <<val>>]

Numerals == {ToString(n) : n \in 0..9}
JsonStrings == Impacts \cup {"help", "failureSummary"}

\* A token JSON.parse accepts as a literal or as a key
IsLiteral(tok) ==
    \/ tok \in Numerals
    \/ \E str \in JsonStrings \cup {"impact", "nodes"} : tok = Quote(str)

\* One node of violation.nodes
NodeJson == Obj(<<Member(Quote("failureSummary"), Atom(Quote("failureSummary")))>>)

\* The object of the rule engine for one violation; a property that is
\* undefined has no member.
ViolationJson(v) ==
    Obj(<<Member(Quote("help"), Atom(Quote("help")))>>
        \o (IF v.impact = "none" THEN <<>>
            ELSE <<Member(Quote("impact"), Atom(Quote(v.impact)))>>)
        \o (IF v.nodes = NoNodes THEN <<>>
            ELSE <<Member(Quote("nodes"), Arr([k \in 1..v.nodes |-> NodeJson]))>>))

ViolationsJson(vs) == Arr([k \in 1..Len(vs) |-> ViolationJson(vs[k])])

\* JSON.stringify(value, null, 2); the indentation is white space
RECURSIVE stringify(_)
RECURSIVE StringifyItems(_)
StringifyItems(items) ==
    IF items = <<>> THEN <<>>
    ELSE stringify(Head(items))
         \o (IF Len(items) > 1 THEN <<",">> ELSE <<>>)
         \o StringifyItems(Tail(items))

stringify(j) ==
    CASE j.t = "atom" -> <<j.v>>
      [] j.t = "arr" -> <<"[">> \o StringifyItems(j.items) \o <<"]">>
      [] j.t = "obj" -> <<"{">> \o StringifyItems(j.items) \o <<"}">>
      [] j.t = "member" -> <<j.v, ":">> \o stringify(j.items[1])

ParseFailed == [ok |-> FALSE, val |-> Atom(""), next |-> 0]
Parsed(val, next) == [ok |-> TRUE, val |-> val, next |-> next]

\* Recursive descent over the tokens from position i (1-based); next is the
\* position after the value.
RECURSIVE ParseValue(_, _)
RECURSIVE ParseItems(_, _, _, _)
ParseItems(toks, i, close, acc) ==
    \* the items of an array (close = "]") or the members of an object
    IF i > Len(toks) THEN ParseFailed
    ELSE IF toks[i] = close /\ acc = <<>> THEN Parsed(acc, i + 1)
    ELSE
        LET keyed == close = "}"
            keyOk == ~keyed \/ (i + 1 <= Len(toks) /\ IsLiteral(toks[i])
                                /\ toks[i] \notin Numerals /\ toks[i + 1] = ":")
            at == IF keyed THEN i + 2 ELSE i
            item == IF keyOk THEN ParseValue(toks, at) ELSE ParseFailed
        IN IF ~item.ok \/ item.next > Len(toks) THEN ParseFailed
           ELSE LET one == IF keyed THEN Member(toks[i], item.val) ELSE item.val
                    sep == toks[item.next]
                IN IF sep = close THEN Parsed(Append(acc, one), item.next + 1)
                   ELSE IF sep = "," /\ item.next + 1 <= Len(toks)
                                     /\ toks[item.next + 1] # close
                        THEN ParseItems(toks, item.next + 1, close, Append(acc, one))
                   ELSE ParseFailed

ParseValue(toks, i) ==
    IF i > Len(toks) THEN ParseFailed
    ELSE IF toks[i] = "[" THEN
        LET r == ParseItems(toks, i + 1, "]", <<>>)
        IN IF r.ok THEN Parsed(Arr(r.val), r.next) ELSE ParseFailed
    ELSE IF toks[i] = "{" THEN
        LET r == ParseItems(toks, i + 1, "}", <<>>)
        IN IF r.ok THEN Parsed(Obj(r.val), r.next) ELSE ParseFailed
    ELSE IF IsLiteral(toks[i]) THEN Parsed(Atom(toks[i]), i + 1)
    ELSE ParseFailed

\* JSON.parse(text): the value, or ok = FALSE for a SyntaxError
JSONparse(text) ==
    LET r == ParseValue(text, 1)
    IN IF r.ok /\ r.next = Len(text) + 1 THEN r ELSE ParseFailed

\* String.prototype.indexOf(tok, from): 0-based, -1 when absent, a negative
\* from counting as 0
indexOf(text, tok, from) ==
    LET start == IF from < 0 THEN 0 ELSE from
        hits == {k \in start..(Len(text) - 1) : text[k + 1] = tok}
    IN IF hits = {} THEN -1 ELSE CHOOSE k \in hits : \A h \in hits : k <= h

\* String.prototype.slice(from, to): negative positions count from the end
slice(text, from, to) ==
    LET len == Len(text)
        lo == IF from < 0 THEN Max(len + from, 0) ELSE Min(from, len)
        hi == IF to < 0 THEN Max(len + to, 0) ELSE Min(to, len)
    IN IF lo >= hi THEN <<>> ELSE SubSeq(text, lo + 1, hi)

------------------------------------------------------------------------------
(* URLs, as the characters the pattern and the prompt see *)

UrlEmpty == <<>>
UrlNoScheme == <<"x", ".", "o">>
UrlSchemeOnly == <<"h", "t", "t", "p", ":", "/", "/">>
UrlPlain == <<"h", "t", "t", "p", "s", ":", "/", "/", "x">>
UrlBracket == <<"h", "t", "t", "p", ":", "/", "/", "x", "/", "[", "1", "]">>

Urls == {UrlEmpty, UrlNoScheme, UrlSchemeOnly, UrlPlain, UrlBracket}

StartsWithAt(u, at, word) ==
    /\ Len(u) >= at + Len(word) - 1
    /\ \A k \in 1..Len(word) : u[at + k - 1] = word[k]

\* Mutant: the pattern without its trailing .+
UrlPatternSchemeOnly(u) ==
    /\ StartsWithAt(u, 1, <<"h", "t", "t", "p">>)
    /\ LET at == IF Len(u) >= 5 /\ u[5] = "s" THEN 6 ELSE 5
       IN StartsWithAt(u, at, <<":", "/", "/">>)

\* /^https?:\/\/.+/.test(u)
urlPattern(u) ==
    /\ StartsWithAt(u, 1, <<"h", "t", "t", "p">>)
    /\ LET at == IF Len(u) >= 5 /\ u[5] = "s" THEN 6 ELSE 5
       IN /\ StartsWithAt(u, at, <<":", "/", "/">>)
          /\ Len(u) >= at + 3
          /\ u[at + 3] # "\n"

ValidUrls == {u \in Urls : urlPattern(u)}

------------------------------------------------------------------------------
(* analyzePage: the prompt *)

DataMarker == "Accessibility scan data for"

\* violations.reduce((sum, v) => sum + v.nodes.length, 0), for lists whose
\* entries all have nodes; an entry without nodes adds nothing here
RECURSIVE TotalNodes(_)
TotalNodes(vs) ==
    IF vs = <<>> THEN 0
    ELSE (IF Head(vs).nodes = NoNodes THEN 0 ELSE Head(vs).nodes)
         + TotalNodes(Tail(vs))

\* The template literal of analyzePage around the url and the violations
PromptText(u, vs, passes) ==
    <<"You're an accessibility expert. Analyze the accessibility scan results for">>
    \o u
    \o <<"and generate a JSON response with this exact structure:",
         "{", Quote("summary"), ":", Quote("A 2-3 sentence summary"), ",",
         Quote("recommendations"), ":", "[", Quote("recommendation 1"), ",",
         Quote("recommendation 2"), ",", Quote("recommendation 3"), ",",
         Quote("recommendation 4"), ",", Quote("recommendation 5"), "]", ",",
         Quote("severity"), ":", Quote("low|medium|high"), ",",
         Quote("score"), ":", "75", "}",
         DataMarker>>
    \o u
    \o <<":">>
    \o stringify(ViolationsJson(vs))
    \o <<"Total violations:", ToString(Len(vs)),
         "Total affected elements:", ToString(TotalNodes(vs)),
         "Passed tests:", ToString(passes),
         "Provide specific, actionable recommendations">>

\* axeResults as far as the client reads it: the violations, and the number of
\* passes (NoPasses: data.passes is undefined)
NoPasses == -1
AxeResults(vs, passes) == [violations |-> vs, passes |-> passes]

\* Building the prompt throws a TypeError on v.nodes.length or passes.length
\* of undefined.
PromptThrows(axeResults) ==
    \/ \E k \in 1..Len(axeResults.violations) :
          axeResults.violations[k].nodes = NoNodes
    \/ axeResults.passes = NoPasses

------------------------------------------------------------------------------
(* Server: app.get('/scan') and app.post('/analyze') *)

MaxPromptViolations == 2    \* longest violation list behind a posted prompt

PromptImpacts == {"critical", "none"}

PromptViolations ==
    {Violation(i, n) : i \in PromptImpacts, n \in {NoNodes} \cup 0..MaxNodes}

NoRequest ==
    [kind |-> "none", url |-> <<>>, data |-> <<>>, prompt |-> <<>>, page |-> FALSE]

\* GET /scan?url=...
ScanRequest(u) ==
    [kind |-> "scan", url |-> u, data |-> <<>>, prompt |-> <<>>, page |-> FALSE]

\* POST /analyze with a prompt written around (u, vs); page marks the prompts
\* analyzePage itself can send
AnalyzeRequest(u, vs) ==
    [kind |-> "analyze", url |-> u, data |-> vs,
     prompt |-> PromptText(u, vs, 0),
     page |-> ~PromptThrows(AxeResults(vs, 0))]

\* POST /analyze with no prompt in the body
AnalyzeNoPrompt ==
    [kind |-> "analyze", url |-> <<>>, data |-> <<>>, prompt |-> <<>>, page |-> FALSE]

\* POST /analyze with a prompt that has neither the marker nor a bracket
AnalyzeProse ==
    [kind |-> "analyze", url |-> <<>>, data |-> <<>>,
     prompt |-> <<"Is this page accessible?">>, page |-> FALSE]

Requests ==
    {ScanRequest(u) : u \in {UrlEmpty, UrlPlain}}
    \cup {AnalyzeRequest(u, vs) :
            u \in ValidUrls, vs \in SeqsUpTo(PromptViolations, MaxPromptViolations)}
    \cup {AnalyzeNoPrompt, AnalyzeProse}

Response(status, body, message, vs, rep) ==
    [status |-> status, body |-> body, error |-> message,
     violations |-> vs, report |-> rep]

\* v.impact and v.nodes?.length of a parsed element; an element that is not
\* an object has neither
Property(j, key) ==
    IF j.t = "obj" /\ \E k \in 1..Len(j.items) : j.items[k].v = Quote(key)
    THEN LET k == CHOOSE k \in 1..Len(j.items) : j.items[k].v = Quote(key)
         IN j.items[k].items[1]
    ELSE Atom("undefined")

ParsedViolation(j) ==
    LET impact == Property(j, "impact")
        nodes == Property(j, "nodes")
    IN Violation(
         IF impact.v = "undefined" THEN "none"
         ELSE IF \E i \in Impacts : impact.v = Quote(i)
              THEN CHOOSE i \in Impacts : impact.v = Quote(i)
              ELSE "unknown",
         IF nodes.t = "arr" THEN Len(nodes.items) ELSE NoNodes)

ParsedViolations(j) == [k \in 1..Len(j.items) |-> ParsedViolation(j.items[k])]

\* Lines 101-104: the text from the first '[' after the marker to the first
\* ']' after it
ExtractJson(prompt) ==
    LET dataStart == indexOf(prompt, DataMarker, 0)
        jsonStart == indexOf(prompt, "[", dataStart)
        jsonEnd == indexOf(prompt, "]", jsonStart) + 1
    IN slice(prompt, jsonStart, jsonEnd)

InitServerVars ==
    /\ request = NoRequest
    /\ spc = "idle"
    /\ responses = <<>>
    /\ effects = {}
    /\ thrown = ""
    /\ extracted = ParseFailed

\* A request reaches its handler
Arrive ==
    /\ spc = "idle"
    /\ \E r \in Requests : request' = r
    /\ spc' = "received"
    /\ responses' = <<>>
    /\ effects' = {}
    /\ thrown' = ""
    /\ extracted' = ParseFailed
    /\ UNCHANGED <<hvars, cvars>>

Respond(status, body, message, vs, rep) ==
    responses' = Append(responses, Response(status, body, message, vs, rep))

\* Mutant: the 400 answer without its return
ScanStartNoReturn ==
    /\ spc = "received" /\ request.kind = "scan"
    /\ IF request.url = <<>>
       THEN Respond(400, "error", "URL parameter is required", <<>>, NoAnalysis)
       ELSE UNCHANGED responses
    /\ spc' = "fetching"
    /\ effects' = effects \cup {"fetch"}
    /\ UNCHANGED <<request, thrown, extracted, hvars, cvars>>

\* Lines 31-44: the url check, then axios.get is started
ScanStart ==
    /\ spc = "received" /\ request.kind = "scan"
    /\ IF request.url = <<>>
       THEN /\ Respond(400, "error", "URL parameter is required", <<>>, NoAnalysis)
            /\ spc' = "done"
            /\ UNCHANGED effects
       ELSE /\ spc' = "fetching"
            /\ effects' = effects \cup {"fetch"}
            /\ UNCHANGED responses
    /\ UNCHANGED <<request, thrown, extracted, hvars, cvars>>

\* Lines 82-87: the catch block of /scan
ScanCatch(message) ==
    /\ thrown' = message
    /\ Respond(500, "error", "Failed to analyze website: " \o message, <<>>, NoAnalysis)
    /\ spc' = "done"

\* Lines 39-54: the page arrives and the DOM is built, or axios or JSDOM throws
ScanFetched ==
    /\ spc = "fetching"
    /\ \/ /\ spc' = "settling"
          /\ UNCHANGED <<responses, thrown>>
       \/ ScanCatch("timeout of 10000ms exceeded")
    /\ UNCHANGED <<request, effects, extracted, hvars, cvars>>

\* Lines 54-57: the one-second wait ends and axe.run is started
ScanSettled ==
    /\ spc = "settling"
    /\ spc' = "running"
    /\ effects' = effects \cup {"axe"}
    /\ UNCHANGED <<request, responses, thrown, extracted, hvars, cvars>>

ScanLists ==
    {vs \in SeqsUpTo(PromptViolations, MaxPromptViolations) :
        \A k \in 1..Len(vs) : vs[k].nodes # NoNodes}

\* Lines 57-80: axe.run ends and its results are written, or it throws
ScanAxeDone ==
    /\ spc = "running"
    /\ \/ \E vs \in ScanLists :
            /\ Respond(200, "scan", "", vs, NoAnalysis)
            /\ spc' = "done"
            /\ UNCHANGED thrown
       \/ ScanCatch("axe.run failed")
    /\ UNCHANGED <<request, effects, extracted, hvars, cvars>>

\* What one run of the /analyze handler does with a prompt: the response it
\* writes (res), the error its catch block caught, the parsed slice and
\* whether the scoring ran.
Handled(res, message, parsed, scored) ==
    [res |-> res, thrown |-> message, extracted |-> parsed, scored |-> scored]

\* Lines 156-161: the catch block of /analyze
AnalyzeCatch(message, parsed) ==
    Handled(<<Response(500, "error", "Analysis failed: " \o message, <<>>, NoAnalysis)>>,
            message, parsed, FALSE)

\* Lines 98-154: the prompt is there; parse, check, score, answer
AnalyzePrompt(prompt) ==
    LET parsed == JSONparse(ExtractJson(prompt))
    IN IF ~parsed.ok
       THEN AnalyzeCatch("Invalid accessibility data format", parsed)
       ELSE IF parsed.val.t # "arr"
       THEN AnalyzeCatch("No violations data found", parsed)
       ELSE Handled(<<Response(200, "report", "", <<>>,
                               ServerReport(ParsedViolations(parsed.val)))>>,
                    "", parsed, TRUE)

\* Lines 92-162: the handler of /analyze
AnalyzeHandler(prompt) ==
    IF prompt = <<>>
    THEN Handled(<<Response(400, "error", "Prompt is required", <<>>, NoAnalysis)>>,
                 "", ParseFailed, FALSE)
    ELSE AnalyzePrompt(prompt)

\* The handler of /analyze has no await and runs in one step
Analyze ==
    /\ spc = "received" /\ request.kind = "analyze"
    /\ spc' = "done"
    /\ LET h == AnalyzeHandler(request.prompt)
       IN /\ responses' = responses \o h.res
          /\ thrown' = h.thrown
          /\ extracted' = h.extracted
          /\ effects' = IF h.scored THEN effects \cup {"score"} ELSE effects
    /\ UNCHANGED <<request, hvars, cvars>>

\* The handler has answered and returns; the server keeps nothing of the
\* request
Return ==
    /\ spc = "done"
    /\ request' = NoRequest
    /\ spc' = "idle"
    /\ responses' = <<>>
    /\ effects' = {}
    /\ thrown' = ""
    /\ extracted' = ParseFailed
    /\ UNCHANGED <<hvars, cvars>>

NextServer ==
    \/ Arrive
    \/ Return
    \/ ScanStart
    \/ ScanFetched
    \/ ScanSettled
    \/ ScanAxeDone
    \/ Analyze

------------------------------------------------------------------------------
(* Client: the AccessibilityAnalyzer component *)

MaxCalls == 2             \* handleAnalyze calls followed
MaxScanViolations == 1    \* longest violation list a /scan answer carries

Calls == 1..MaxCalls

MsgEmptyUrl == "Please enter a valid URL"
MsgPattern == "Please enter a valid URL starting with http:// or https://"
MsgFetch == "Failed to fetch"
MsgServer == "Failed to analyze website: timeout of 10000ms exceeded"
MsgInvalid == "Invalid response from server"
MsgTypeError == "Cannot read properties of undefined (reading 'length')"

NullReport ==
    [set |-> FALSE, url |-> <<>>, llmAnalysis |-> NoAnalysis, totalIssues |-> 0]

\* The object handleAnalyze passes to setReport
Report(u, axeResults, llmAnalysis) ==
    [set |-> TRUE, url |-> u, llmAnalysis |-> llmAnalysis,
     totalIssues |-> TotalNodes(axeResults.violations)]

NoResults == AxeResults(<<>>, NoPasses)

\* A handleAnalyze call: where it stands, the url it closed over and its
\* local axeResults, which is gone when the call has returned
NotCalled == [pc |-> "idle", url |-> <<>>, axeResults |-> NoResults]
Run(pc, u, axeResults) == [pc |-> pc, url |-> u, axeResults |-> axeResults]

InitClientVars ==
    /\ url = <<>>
    /\ loading = FALSE
    /\ report = NullReport
    /\ error = ""
    /\ runs = [c \in Calls |-> NotCalled]
    /\ sent = <<>>

\* The violation entries a /scan answer may carry, with or without nodes
ScanViolations == {Violation("serious", n) : n \in {NoNodes, MaxNodes}}

\* What the fetch of /scan can end in: a rejected fetch, a non-OK status with
\* an error body, a body without violations, or data with a violation list and
\* with or without passes
ScanOutcomes ==
    {[kind |-> k, data |-> NoResults] : k \in {"rejected", "notOk", "noViolations"}}
    \cup {[kind |-> "data", data |-> AxeResults(vs, p)] :
            vs \in SeqsUpTo(ScanViolations, MaxScanViolations), p \in {NoPasses, 0}}

\* What the fetch of /analyze can end in: the answer of the server's handler,
\* a rejected fetch, a report that is not JSON, or a body without report
AnalyzeOutcomes == {"server", "rejected", "garbled", "noReport"}

\* onChange of the input, which is disabled while loading
SetUrl ==
    /\ ~loading
    /\ \E u \in Urls : u # url /\ url' = u
    /\ UNCHANGED <<loading, report, error, runs, sent, hvars, svars>>

\* onClick of the clear icon, rendered when url && !loading
ClearUrl ==
    /\ url # <<>> /\ ~loading
    /\ url' = <<>>
    /\ UNCHANGED <<loading, report, error, runs, sent, hvars, svars>>

\* The next call of handleAnalyze
NextCall(c) ==
    /\ runs[c].pc = "idle"
    /\ \A b \in Calls : b < c => runs[b].pc # "idle"

\* Lines 83-88 and 113-131: handleAnalyze from its call to its first await.
\* The button and the Enter key of the input are both disabled while loading.
\* With an empty url it returns at once; with a url that fails the pattern it
\* throws, catches and ends; otherwise runAccessibilityCheck sends the fetch of
\* /scan.
handleAnalyze(c) ==
    /\ ~loading
    /\ NextCall(c)
    /\ IF url = <<>>
       THEN /\ error' = MsgEmptyUrl
            /\ runs' = [runs EXCEPT ![c] = Run("done", url, NoResults)]
            /\ UNCHANGED <<loading, report, sent>>
       ELSE IF ~urlPattern(url)
       THEN /\ error' = MsgPattern
            /\ report' = NullReport
            /\ loading' = FALSE
            /\ runs' = [runs EXCEPT ![c] = Run("done", url, NoResults)]
            /\ UNCHANGED sent
       ELSE /\ loading' = TRUE
            /\ error' = ""
            /\ report' = NullReport
            /\ sent' = Append(sent, [kind |-> "scan", url |-> url])
            /\ runs' = [runs EXCEPT ![c] = Run("scan", url, NoResults)]
    /\ UNCHANGED <<url, hvars, svars>>

\* Lines 89-110: what runAccessibilityCheck returns for an outcome of the fetch
ScanResults(outcome) ==
    IF outcome.kind = "data" THEN outcome.data ELSE AxeResults(<<>>, 0)

\* Lines 100-102: the message its catch block sets, "" when nothing is thrown
ScanError(outcome) ==
    CASE outcome.kind = "rejected" -> MsgFetch
      [] outcome.kind = "notOk" -> MsgServer
      [] outcome.kind = "noViolations" -> MsgInvalid
      [] OTHER -> ""

\* Lines 89-111 and 131-137, then 10-38: the fetch of /scan ends; the catch and
\* finally blocks of runAccessibilityCheck run, and handleAnalyze goes on into
\* analyzePage up to the fetch of /analyze.  When building the prompt throws,
\* analyzePage falls back to getSimulatedAnalysis and the run ends in this
\* step: with the report set, or, when that throws too, in the catch block of
\* handleAnalyze.
ScanDone(c) ==
    /\ runs[c].pc = "scan"
    /\ \E outcome \in ScanOutcomes :
         LET axeResults == ScanResults(outcome)
             scanError == IF ScanError(outcome) = "" THEN error ELSE ScanError(outcome)
             simulated == getSimulatedAnalysis(axeResults.violations)
         IN /\ loading' = FALSE
            /\ IF ~PromptThrows(axeResults)
               THEN /\ error' = scanError
                    /\ sent' = Append(sent, [kind |-> "analyze", url |-> runs[c].url])
                    /\ runs' = [runs EXCEPT ![c] = Run("analyze", runs[c].url, axeResults)]
                    /\ UNCHANGED report
               ELSE IF ~simulated.threw
               THEN /\ error' = scanError
                    /\ report' = Report(runs[c].url, axeResults, simulated)
                    /\ runs' = [runs EXCEPT ![c] = Run("done", runs[c].url, NoResults)]
                    /\ UNCHANGED sent
               ELSE /\ error' = MsgTypeError
                    /\ runs' = [runs EXCEPT ![c] = Run("done", runs[c].url, NoResults)]
                    /\ UNCHANGED <<report, sent>>
    /\ UNCHANGED <<url, hvars, svars>>

\* Lines 40-50: the analysis analyzePage returns for an outcome of the fetch
\* of /analyze.  Only a 200 answer of the server's handler carries a report
\* that parses (the handler wrote it with JSON.stringify); a 500 answer and
\* every other outcome end in getSimulatedAnalysis.
PageAnalysis(outcome, u, axeResults) ==
    LET res == AnalyzeHandler(PromptText(u, axeResults.violations, axeResults.passes)).res[1]
    IN IF outcome = "server" /\ res.status = 200
       THEN res.report
       ELSE getSimulatedAnalysis(axeResults.violations)

\* Lines 40-50 and 137-153: the fetch of /analyze ends; analyzePage returns
\* the parsed report or the simulated analysis, handleAnalyze sets the report
\* and its finally block clears loading.
AnalyzeDone(c) ==
    /\ runs[c].pc = "analyze"
    /\ \E outcome \in AnalyzeOutcomes :
         report' = Report(runs[c].url, runs[c].axeResults,
                          PageAnalysis(outcome, runs[c].url, runs[c].axeResults))
    /\ loading' = FALSE
    /\ runs' = [runs EXCEPT ![c] = Run("done", runs[c].url, NoResults)]
    /\ UNCHANGED <<url, error, sent, hvars, svars>>

Next ==
    \/ SetUrl
    \/ ClearUrl
    \/ \E c \in Calls : handleAnalyze(c)
    \/ \E c \in Calls : ScanDone(c)
    \/ \E c \in Calls : AnalyzeDone(c)

Init ==
    /\ InitClientVars
    /\ InitHeuristicVars
    /\ InitServerVars

Spec == Init /\ [][Next]_vars

------------------------------------------------------------------------------
(* SpecHeuristic: each variant applied to every bounded violation list *)

HeuristicViolations == {Violation(i, MaxNodes) : i \in Impacts}

\* n copies of v
Repeat(v, n) == [i \in 1..n |-> v]

\* Every list of up to MaxViolations entries, and the longer lists of one
\* impact repeated, which drive each penalty class past the clamp.
HeuristicInputs(longest, longestRepeat) ==
    SeqsUpTo(HeuristicViolations, longest)
    \cup {Repeat(v, n) : v \in HeuristicViolations, n \in 0..longestRepeat}

InitHeuristic ==
    /\ violations \in HeuristicInputs(MaxViolations, MaxRepeat)
    /\ path = "input"
    /\ analysis = NoAnalysis
    /\ InitServerVars
    /\ InitClientVars

ServerAnalyze ==
    /\ path = "input"
    /\ path' = "server"
    /\ analysis' = ServerReport(violations)
    /\ UNCHANGED <<violations, svars, cvars>>

ClientSimulate ==
    /\ path = "input"
    /\ path' = "client"
    /\ analysis' = getSimulatedAnalysis(violations)
    /\ UNCHANGED <<violations, svars, cvars>>

NextHeuristic == ServerAnalyze \/ ClientSimulate

SpecHeuristic == InitHeuristic /\ [][NextHeuristic]_vars

------------------------------------------------------------------------------
(* SpecServer: one request after another *)

InitServer ==
    /\ InitServerVars
    /\ InitHeuristicVars
    /\ InitClientVars

SpecServer == InitServer /\ [][NextServer]_vars

------------------------------------------------------------------------------
(* Properties of the heuristic (SpecHeuristic) *)

HasImpact(vs, impact) == \E k \in 1..Len(vs) : vs[k].impact = impact
NumImpact(vs, impact) == Cardinality({k \in 1..Len(vs) : vs[k].impact = impact})

\* C1: whatever the violation list, the score of the report of either
\* variant is an integer between 0 and 100.
C1_ScoreInRange ==
    (path \in {"server", "client"} /\ ~analysis.threw)
        => analysis.score \in 0..100

\* C1 witness: the client variant on a list whose penalties exceed 100.
C1_Witness ==
    /\ path = "client"
    /\ Len(violations) * ClientPenaltyOther > 100
    /\ analysis.score = 0

\* C2: severity is "high" with any critical violation; otherwise "medium"
\* with any serious violation or, on the server only, more than two moderate
\* ones; otherwise "low".  The client never answers "medium" for moderate
\* violations alone.
C2_Severity ==
    /\ path = "server" =>
          analysis.severity =
              IF HasImpact(violations, "critical") THEN "high"
              ELSE IF HasImpact(violations, "serious")
                      \/ NumImpact(violations, "moderate") > 2 THEN "medium"
              ELSE "low"
    /\ path = "client" =>
          /\ analysis.severity =
                 IF HasImpact(violations, "critical") THEN "high"
                 ELSE IF HasImpact(violations, "serious") THEN "medium"
                 ELSE "low"
          /\ (analysis.severity = "medium") => HasImpact(violations, "serious")

\* C2 witness: the server answers "medium" for three moderate violations and
\* no serious one.
C2_Witness ==
    /\ path = "server"
    /\ analysis.severity = "medium"
    /\ ~HasImpact(violations, "serious")
    /\ NumImpact(violations, "moderate") = 3

ClaimedServerPenalty(impact) ==
    CASE impact = "critical" -> 20
      [] impact = "serious" -> 15
      [] impact = "moderate" -> 10
      [] OTHER -> 5

ClaimedClientPenalty(impact) ==
    CASE impact = "critical" -> 15
      [] impact = "serious" -> 10
      [] OTHER -> 5

ClaimedPenalty(variant, impact) ==
    IF variant = "server" THEN ClaimedServerPenalty(impact)
    ELSE ClaimedClientPenalty(impact)

RECURSIVE SumPenalty(_, _)
SumPenalty(vs, variant) ==
    IF vs = <<>> THEN 0
    ELSE ClaimedPenalty(variant, Head(vs).impact) + SumPenalty(Tail(vs), variant)

Clamp(x) == IF x < 0 THEN 0 ELSE IF x > 100 THEN 100 ELSE x

\* C3: the score is 100 minus one fixed penalty per violation, clamped to
\* 0..100: on the server 20, 15, 10 for critical, serious, moderate and 5 for
\* minor or any other impact; on the client 15, 10 and 5 for every other
\* violation.  Every violation costs at least 5.
C3_ScoreIsPenaltySum ==
    /\ path = "server" =>
          analysis.score = Clamp(100 - SumPenalty(violations, "server"))
    /\ path = "client" =>
          analysis.score = Clamp(100 - SumPenalty(violations, "client"))

RecommendationOf(variant, v) ==
    IF variant = "server" THEN ServerRecommendation(v) ELSE ClientRecommendation(v)

FirstFive(variant) ==
    /\ Len(analysis.recommendations) = Min(5, Len(violations))
    /\ \A k \in 1..Len(analysis.recommendations) :
          analysis.recommendations[k] = RecommendationOf(variant, violations[k])

\* C4 as claimed: on both paths the recommendation list holds one string for
\* each of the first min(5, |V|) violations, in order, the empty list included.
C4_OnePerViolation ==
    /\ path = "server" => FirstFive("server")
    /\ path = "client" => FirstFive("client")

\* C4 as amended: the same, except that the client's list for an empty
\* violation list is the single placeholder string; never more than 5 entries.
C4_OnePerViolationOrPlaceholder ==
    /\ path = "server" => FirstFive("server")
    /\ (path = "client" /\ violations # <<>>) => FirstFive("client")
    /\ (path = "client" /\ violations = <<>>) =>
          analysis.recommendations = <<NoViolationsText>>
    /\ Len(analysis.recommendations) <= 5

\* C4 witness: a list of six violations of mixed impact cut to five
\* recommendations by the server.
C4_Witness ==
    /\ path = "server"
    /\ Len(violations) = 6
    /\ violations[1].impact # violations[2].impact
    /\ Len(analysis.recommendations) = 5

\* C5: the client fallback returns the severity and the score that the
\* server computes for the same violation list.
C5_FallbackEqualsServer ==
    path = "client" =>
        /\ analysis.severity = ServerReport(violations).severity
        /\ analysis.score = ServerReport(violations).score

------------------------------------------------------------------------------
(* Properties of the server (SpecServer) *)

MissingParameter ==
    \/ request.kind = "scan" /\ request.url = <<>>
    \/ request.kind = "analyze" /\ request.prompt = <<>>

\* C7: a request gets exactly one response: 400 with an error message and no
\* fetch, rule evaluation or scoring when its parameter is missing, 500 with an
\* error message when processing failed, otherwise 200 with {violations,
\* passes} for /scan or {report} for /analyze; none while the handler runs.
C7_ExactlyOneResponse ==
    /\ spc \in {"received", "fetching", "settling", "running"} => responses = <<>>
    /\ spc = "done" =>
          /\ Len(responses) = 1
          /\ LET res == responses[1]
             IN /\ MissingParameter =>
                     /\ res.status = 400 /\ res.body = "error" /\ res.error # ""
                     /\ effects = {}
                /\ (~MissingParameter /\ thrown # "") =>
                     res.status = 500 /\ res.body = "error" /\ res.error # ""
                /\ (~MissingParameter /\ thrown = "") =>
                     /\ res.status = 200
                     /\ res.body = (IF request.kind = "scan" THEN "scan" ELSE "report")

\* C7 witness: a /scan request without url answered 400 before any fetch.
C7_Witness ==
    /\ spc = "done"
    /\ request.kind = "scan" /\ request.url = <<>>
    /\ Len(responses) = 1 /\ responses[1].status = 400
    /\ "fetch" \notin effects

\* C8: for every prompt analyzePage builds from a url and a violation list V,
\* the list /analyze extracts from the prompt equals V, and the report is the
\* one computed from V.
C8_ViolationsSurvivePrompt ==
    (spc = "done" /\ request.kind = "analyze" /\ request.page) =>
        /\ extracted.ok
        /\ extracted.val = ViolationsJson(request.data)
        /\ responses[1].status = 200
        /\ responses[1].report = ServerReport(request.data)

------------------------------------------------------------------------------
(* Properties of the client (Spec) *)

InFlight(c) == runs[c].pc \in {"scan", "analyze"}

\* The call c returns in this step after an await
Finishes(c) == InFlight(c) /\ runs'[c].pc = "done"

\* The call c of handleAnalyze is made in this step
Called(c) == runs[c].pc = "idle" /\ runs'[c].pc # "idle"

\* C6: every handleAnalyze run on a url that passed validation ends with the
\* report set, whatever the fetch of /scan and the fetch of /analyze end in.
C6_RunEndsWithReport ==
    [][\A c \in Calls : Finishes(c) => report'.set]_vars

\* C9: while a handleAnalyze run is between its url check and its end,
\* loading is true, and no second run is under way.
C9_LoadingWhileInFlight ==
    /\ \A c \in Calls : InFlight(c) => loading
    /\ Cardinality({c \in Calls : InFlight(c)}) <= 1

HttpPrefix == <<"h", "t", "t", "p", ":", "/", "/">>
HttpsPrefix == <<"h", "t", "t", "p", "s", ":", "/", "/">>

\* u starts with http:// or https:// and goes on for at least one character
HasSchemeAndMore(u) ==
    \/ Len(u) > Len(HttpPrefix) /\ SubSeq(u, 1, Len(HttpPrefix)) = HttpPrefix
    \/ Len(u) > Len(HttpsPrefix) /\ SubSeq(u, 1, Len(HttpsPrefix)) = HttpsPrefix

\* C10: a scan request is sent only for a url that starts with http:// or
\* https:// followed by at least one character.  A call with an empty url
\* sets the error and leaves loading and report as they are; a call with a
\* non-empty url that fails the pattern sends nothing and ends with the error
\* set, the report null and loading false.
C10_ScanOnlyForValidUrl ==
    /\ [](\A k \in 1..Len(sent) : HasSchemeAndMore(sent[k].url))
    /\ [][\A c \in Calls : Called(c) =>
            /\ url = <<>> =>
                  /\ error' = MsgEmptyUrl
                  /\ loading' = loading /\ report' = report /\ sent' = sent
                  /\ runs'[c].pc = "done"
            /\ (url # <<>> /\ ~HasSchemeAndMore(url)) =>
                  /\ sent' = sent
                  /\ error' # "" /\ report' = NullReport /\ loading' = FALSE
                  /\ runs'[c].pc = "done"
            /\ HasSchemeAndMore(url) =>
                  sent' = Append(sent, [kind |-> "scan", url |-> url])]_vars

\* C10 witness: a call on "http://", which fails the pattern for want of a
\* character after the scheme, has ended with nothing sent.
C10_Witness ==
    \E c \in Calls :
        /\ runs[c].pc = "done" /\ runs[c].url = UrlSchemeOnly
        /\ sent = <<>>
        /\ error = MsgPattern /\ ~report.set /\ ~loading

====
